---- MODULE Spec2Model ----
(***************************************************************************)
(* StudyPlanner: the time-allocation and recurrence engine.                *)
(*                                                                         *)
(* Representation.                                                         *)
(*   - a date is a day number; day 0 is a Monday, so weekday(d) = d % 7    *)
(*     (0 = Monday .. 6 = Sunday, as datetime.date.weekday()).             *)
(*   - a datetime is a number of minutes since day 0, 00:00 (naive local   *)
(*     time; the forms submit local date-times without a UTC offset).      *)
(*   - the TEXT columns start_time / end_time hold ISO strings; an ISO     *)
(*     string is the tuple <<day, hour, minute>>, produced by isoformat    *)
(*     and parsed by fromisoformat.                                        *)
(*   - a minute of the model is the resolution of a timestamp; the times   *)
(*     of the forms are whole minutes.                                     *)
(*   - required_time (REAL hours) and slot durations (float hours) are     *)
(*     efforts, finer than the resolution of a timestamp: they are counted *)
(*     in half minutes (1.5 h = Minutes(90) = 180).  timedelta_hours turns *)
(*     an effort into a length of time as timedelta(hours=x) does: rounded *)
(*     to the nearest unit of the resolution, ties to even.                *)
(*   - task_id 0 stands for SQL NULL, completion_date -1 for SQL NULL,     *)
(*     subject_id 0 for SQL NULL.                                          *)
(*   - of a subject only its id matters here, in the subject_id column of  *)
(*     the tasks; the subjects table and its notes are left out.           *)
(*   - the free-text notes column has no effect on any operation and is    *)
(*     left out of the rows.                                               *)
(*   - the rows have the columns of the migrated schema (is_recurring,     *)
(*     recurrence_pattern, completion_date), which migrate_db adds.        *)
(*   - recurrence_pattern is one of once / weekly / biweekly, the values   *)
(*     the activity forms offer.                                           *)
(***************************************************************************)
EXTENDS Integers, Sequences, FiniteSets, TLC

VARIABLES tasks, blocks, nextTaskId, nextBlockId, today, flash, requests, serial

vars == <<tasks, blocks, nextTaskId, nextBlockId, today, flash, requests, serial>>

(***************************************************************************)
(* Bounds of the model.                                                    *)
(***************************************************************************)
MaxTaskId == 2
MaxBlockId == 7
MaxToday == 2
MaxDueDate == 45
MaxSeriesBlockId == 4

(***************************************************************************)
(* Program constants.                                                      *)
(***************************************************************************)
MAX_URGENCY_DAYS == 90
PRIORITY_FACTOR == 10
days_window == 7
WindowStartHour == 8
WindowEndHour == 22
MinSlotMinutes == 15
RecurDays == 7

MinutesPerHour == 60
MinutesPerDay == 1440
EffortPerMinute == 2

Users == {1}

Max(a, b) == IF a >= b THEN a ELSE b
Min(a, b) == IF a <= b THEN a ELSE b

(***************************************************************************)
(* datetime helpers                                                        *)
(***************************************************************************)
\* datetime.isoformat(): 'YYYY-MM-DDTHH:MM:SS' of a naive datetime
isoformat(dt) ==
    <<dt \div MinutesPerDay, (dt % MinutesPerDay) \div MinutesPerHour, dt % MinutesPerHour>>

\* datetime.fromisoformat()
fromisoformat(s) == s[1] * MinutesPerDay + s[2] * MinutesPerHour + s[3]

\* datetime.combine(date, time-of-day)
combine(d, t) == d * MinutesPerDay + t

\* datetime.date()
dateOf(dt) == dt \div MinutesPerDay

\* date.weekday()
weekday(d) == d % 7

\* float hours of a whole number of minutes
Minutes(m) == m * EffortPerMinute

\* timedelta.total_seconds() / 3600.0: the float hours of a length of time
total_hours(td) == td * EffortPerMinute

\* timedelta(hours=x): the length of time of float hours, rounded to the
\* resolution of a timestamp, ties to even
timedelta_hours(x) ==
    LET q == x \div EffortPerMinute
        r == x % EffortPerMinute
    IN  IF 2 * r < EffortPerMinute THEN q
        ELSE IF 2 * r > EffortPerMinute THEN q + 1
        ELSE IF q % 2 = 0 THEN q ELSE q + 1

\* ISO strings of one fixed format compare as the instants they denote
IsoLess(a, b) ==
    \/ a[1] < b[1]
    \/ a[1] = b[1] /\ a[2] < b[2]
    \/ a[1] = b[1] /\ a[2] = b[2] /\ a[3] < b[3]

(***************************************************************************)
(* Rows of a result set in the order an ORDER BY returns them: ascending   *)
(* by the key, rows with equal keys in rowid order.                        *)
(***************************************************************************)
RECURSIVE OrderByStartTime(_)
\* ORDER BY start_time ASC
OrderByStartTime(rows) ==
    IF rows = {} THEN <<>>
    ELSE LET first == CHOOSE r \in rows :
                          \A q \in rows \ {r} :
                              \/ IsoLess(r.start_time, q.start_time)
                              \/ r.start_time = q.start_time /\ r.id < q.id
         IN  <<first>> \o OrderByStartTime(rows \ {first})

RECURSIVE OrderByDueDate(_)
\* ORDER BY due_date ASC
OrderByDueDate(rows) ==
    IF rows = {} THEN <<>>
    ELSE LET first == CHOOSE r \in rows :
                          \A q \in rows \ {r} :
                              \/ r.due_date < q.due_date
                              \/ r.due_date = q.due_date /\ r.id < q.id
         IN  <<first>> \o OrderByDueDate(rows \ {first})

(***************************************************************************)
(* database_manager: schedule blocks                                       *)
(***************************************************************************)
\* the row insert_schedule_block adds; id is the AUTOINCREMENT key
insert_schedule_block(id, user_id, task_id, activity_name, start_time, end_time, is_fixed, is_recurring, recurrence_pattern) ==
    [id |-> id, user_id |-> user_id, task_id |-> task_id,
     activity_name |-> activity_name,
     start_time |-> start_time, end_time |-> end_time,
     is_fixed |-> is_fixed, is_recurring |-> is_recurring,
     recurrence_pattern |-> recurrence_pattern]

\* rows with both TEXT columns parsed into datetimes
fetch_all_schedule_blocks(bs, user_id) ==
    LET rows == OrderByStartTime({b \in bs : b.user_id = user_id})
    IN  [i \in 1..Len(rows) |->
            [rows[i] EXCEPT !.start_time = fromisoformat(rows[i].start_time),
                            !.end_time = fromisoformat(rows[i].end_time)]]

\* rows as stored (start_time / end_time stay ISO strings)
get_fixed_activities(bs, user_id) ==
    OrderByStartTime({b \in bs : b.user_id = user_id /\ b.is_fixed = 1})

get_schedule_blocks_by_activity(bs, user_id, activity_name, recurrence_pattern) ==
    {b \in bs : /\ b.user_id = user_id
                /\ b.activity_name = activity_name
                /\ b.recurrence_pattern = recurrence_pattern}

get_schedule_block_by_id(bs, block_id, user_id) ==
    {b \in bs : b.id = block_id /\ b.user_id = user_id}

delete_schedule_block(bs, block_id, user_id) ==
    {b \in bs : ~(b.id = block_id /\ b.user_id = user_id)}

delete_all_recurring_activities(bs, user_id, activity_name, recurrence_pattern) ==
    bs \ get_schedule_blocks_by_activity(bs, user_id, activity_name, recurrence_pattern)

\* a slip: the old flexible blocks are kept
delete_flexible_schedule_blocks_Keeps(bs, user_id) == bs

delete_flexible_schedule_blocks(bs, user_id) ==
    {b \in bs : ~(b.user_id = user_id /\ b.is_fixed = 0)}

update_schedule_block(bs, block_id, user_id, activity_name, start_time, end_time) ==
    {IF b.id = block_id /\ b.user_id = user_id
        THEN [b EXCEPT !.activity_name = activity_name,
                       !.start_time = start_time,
                       !.end_time = end_time]
        ELSE b : b \in bs}

(***************************************************************************)
(* database_manager: tasks                                                 *)
(***************************************************************************)
insert_task(id, user_id, subject_id, name, due_date, required_time, priority_weight, is_recurring) ==
    [id |-> id, user_id |-> user_id, subject_id |-> subject_id,
     name |-> name, due_date |-> due_date,
     required_time |-> required_time, priority_weight |-> priority_weight,
     status |-> "PENDING", is_recurring |-> is_recurring, completion_date |-> -1]

\* a slip: the status filter is missing from the query
fetch_tasks_AnyStatus(ts, user_id, status) ==
    LET rows == OrderByDueDate({t \in ts : t.user_id = user_id})
    IN  [i \in 1..Len(rows) |->
            [rows[i] EXCEPT !.due_date = [type |-> "str", val |-> rows[i].due_date]]]

\* The rows as Python dicts.  due_date is a TEXT column and no converter is
\* registered for TEXT, so the value handed to the caller is a str.
fetch_tasks(ts, user_id, status) ==
    LET rows == OrderByDueDate({t \in ts : t.user_id = user_id /\ t.status = status})
    IN  [i \in 1..Len(rows) |->
            [rows[i] EXCEPT !.due_date = [type |-> "str", val |-> rows[i].due_date]]]

update_status(ts, task_id, new_status) ==
    {IF t.id = task_id THEN [t EXCEPT !.status = new_status] ELSE t : t \in ts}

get_task_by_id(ts, task_id) == {t \in ts : t.id = task_id}

\* a slip: an edited task is opened again
update_task_Reopens(ts, task_id, user_id, name, due_date, required_time, priority_weight, subject_id) ==
    {IF t.id = task_id /\ t.user_id = user_id
        THEN [t EXCEPT !.name = name,
                       !.due_date = due_date,
                       !.required_time = required_time,
                       !.priority_weight = priority_weight,
                       !.subject_id = subject_id,
                       !.status = "PENDING"]
        ELSE t : t \in ts}

update_task(ts, task_id, user_id, name, due_date, required_time, priority_weight, subject_id) ==
    {IF t.id = task_id /\ t.user_id = user_id
        THEN [t EXCEPT !.name = name,
                       !.due_date = due_date,
                       !.required_time = required_time,
                       !.priority_weight = priority_weight,
                       !.subject_id = subject_id]
        ELSE t : t \in ts}

\* database_manager.delete_subject: the tasks of the subject are deleted
delete_subject_rows(ts, subject_id, user_id) ==
    {t \in ts : ~(t.subject_id = subject_id /\ t.user_id = user_id)}

delete_task_rows(ts, task_id, user_id) ==
    {t \in ts : ~(t.id = task_id /\ t.user_id = user_id)}

delete_task_blocks(bs, task_id, user_id) ==
    {b \in bs : ~(b.task_id = task_id /\ b.user_id = user_id)}

(***************************************************************************)
(* scheduling_algorithms: priority scorer                                  *)
(***************************************************************************)
get_days_until_due(due_date, now) ==
    LET delta == IF due_date.type = "datetime"
                    THEN dateOf(due_date.val) - dateOf(now)
                    ELSE 0
    IN  Max(0, delta)

Swap(s, i, j) == [s EXCEPT ![i] = s[j], ![j] = s[i]]

RECURSIVE FindMax(_, _, _)
\* inner loop of selection_sort_tasks: j runs from the given index to N
FindMax(s, max_index, j) ==
    IF j > Len(s) THEN max_index
    ELSE FindMax(s, IF s[j].SCORE > s[max_index].SCORE THEN j ELSE max_index, j + 1)

RECURSIVE SelectionPass(_, _)
SelectionPass(s, i) ==
    IF i >= Len(s) THEN s
    ELSE LET max_index == FindMax(s, i, i + 1)
         IN  SelectionPass(IF max_index # i THEN Swap(s, i, max_index) ELSE s, i + 1)

selection_sort_tasks(task_list) == SelectionPass(task_list, 1)

task_prioritization(task_records, now) ==
    selection_sort_tasks(
        [i \in 1..Len(task_records) |->
            LET task == task_records[i]
                days_remaining == get_days_until_due(task.due_date, now)
                urgency_score == MAX_URGENCY_DAYS - days_remaining
            IN  [TASK_DETAIL |-> task,
                 SCORE |-> (urgency_score * PRIORITY_FACTOR) + task.priority_weight]])

(***************************************************************************)
(* scheduling_algorithms: conflict detector                                *)
(***************************************************************************)
\* a slip: closed intervals, touching boundaries count as a conflict
Clash_Closed(new_start, new_end, start, end) == new_start <= end /\ new_end >= start

\* line 50: the half-open overlap test against one stored block
Clash(new_start, new_end, start, end) == new_start < end /\ new_end > start

RECURSIVE ConflictScan(_, _, _, _)
\* lines 47-52
ConflictScan(bseq, i, new_start, new_end) ==
    IF i > Len(bseq) THEN TRUE
    ELSE IF Clash(new_start, new_end, bseq[i].start_time, bseq[i].end_time) THEN FALSE
    ELSE ConflictScan(bseq, i + 1, new_start, new_end)

\* a slip: only the fixed activities are compared
check_for_conflict_FixedOnly(bs, user_id, new_start, new_end) ==
    ConflictScan(fetch_all_schedule_blocks({b \in bs : b.is_fixed = 1}, user_id),
                 1, new_start, new_end)

\* TRUE = the range is available
check_for_conflict(bs, user_id, new_start, new_end) ==
    ConflictScan(fetch_all_schedule_blocks(bs, user_id), 1, new_start, new_end)

\* app.py lines 243-252 (add_activity) and 459-468, 619-628
\* (edit_schedule_block): the handlers' call of the detector.  failed_days are
\* the dates for which the detector raises, the persistence layer failing
\* under its read; an exception is answered with TRUE
check_conflict(failed_days, bs, u_id, s_dt, e_dt) ==
    IF dateOf(s_dt) \in failed_days THEN TRUE
    ELSE check_for_conflict(bs, u_id, s_dt, e_dt)

(***************************************************************************)
(* scheduling_algorithms: free-time window calculator                      *)
(***************************************************************************)
\* a slip: the piece after the activity starts where the activity starts
SplitPiece_RightFromStart(a, fa_start, fa_end) ==
    IF fa_end <= a.start_time \/ fa_start >= a.end_time
        THEN <<a>>
        ELSE (IF fa_start > a.start_time
                 THEN <<[start_time |-> a.start_time, end_time |-> fa_start]>>
                 ELSE <<>>)
             \o
             (IF fa_end < a.end_time
                 THEN <<[start_time |-> Max(fa_start, a.start_time), end_time |-> a.end_time]>>
                 ELSE <<>>)

\* lines 73-79: what one fixed activity leaves of one piece
SplitPiece(a, fa_start, fa_end) ==
    IF fa_end <= a.start_time \/ fa_start >= a.end_time
        THEN <<a>>
        ELSE (IF fa_start > a.start_time
                 THEN <<[start_time |-> a.start_time, end_time |-> fa_start]>>
                 ELSE <<>>)
             \o
             (IF fa_end < a.end_time
                 THEN <<[start_time |-> fa_end, end_time |-> a.end_time]>>
                 ELSE <<>>)

\* lines 69-80: one fixed activity subtracted from every remaining piece
SubtractActivity(available, fa_start, fa_end) ==
    LET Cat[i \in 0..Len(available)] ==
            IF i = 0 THEN <<>> ELSE Cat[i - 1] \o SplitPiece(available[i], fa_start, fa_end)
    IN  Cat[Len(available)]

RECURSIVE SubtractAll(_, _, _)
\* lines 63-80: the loop over the fixed activities of one day
SubtractAll(available, fixed_activities, k) ==
    IF k > Len(fixed_activities) THEN available
    ELSE SubtractAll(
            SubtractActivity(available,
                             fromisoformat(fixed_activities[k].start_time),
                             fromisoformat(fixed_activities[k].end_time)),
            fixed_activities, k + 1)

\* lines 81-85: drop the pieces shorter than a quarter of an hour
KeepSlots(available) ==
    LET Cat[i \in 0..Len(available)] ==
            IF i = 0 THEN <<>>
            ELSE LET a == available[i]
                     duration == total_hours(a.end_time - a.start_time)
                 IN  IF duration >= Minutes(MinSlotMinutes)
                        THEN Cat[i - 1] \o <<[start_time |-> a.start_time, duration |-> duration]>>
                        ELSE Cat[i - 1]
    IN  Cat[Len(available)]

\* lines 59-62: the base window of day offset d; now is a date
DayWindow(now, d) ==
    [start_time |-> combine(now + d, WindowStartHour * MinutesPerHour),
     end_time |-> combine(now + d, WindowEndHour * MinutesPerHour)]

\* the free slots of the days now+1 .. now+days_window
calculate_free_time(fixed_activities, now) ==
    LET DaySlots(d) ==
            KeepSlots(SubtractAll(<<DayWindow(now, d)>>, fixed_activities, 1))
        Cat[d \in 0..days_window] ==
            IF d = 0 THEN <<>> ELSE Cat[d - 1] \o DaySlots(d)
    IN  Cat[days_window]

(***************************************************************************)
(* scheduling_algorithms: greedy allocator                                 *)
(* The store threaded through the loops is [blocks, next, tasks].          *)
(***************************************************************************)
\* a slip: the start of the slot is not advanced
ConsumeSlot_KeepStart(slot, allocation, end_time) ==
    [start_time |-> slot.start_time, duration |-> slot.duration - allocation]

\* lines 112-113: the slot after an allocation ending at end_time
ConsumeSlot(slot, allocation, end_time) ==
    [start_time |-> end_time, duration |-> slot.duration - allocation]

RECURSIVE AllocateTask(_, _, _, _, _, _, _)
\* lines 102-113: the scan of the shared slot list for one task
AllocateTask(db, slots, user_id, task_id, task_name, remaining, i) ==
    IF i > Len(slots) \/ remaining <= 0
        THEN [db |-> db, slots |-> slots, remaining |-> remaining]
    ELSE LET allocation == Min(remaining, slots[i].duration)
         IN  IF allocation <= 0
                THEN AllocateTask(db, slots, user_id, task_id, task_name, remaining, i + 1)
                ELSE LET start_time == slots[i].start_time
                         end_time == start_time + timedelta_hours(allocation)
                         row == insert_schedule_block(db.next, user_id, task_id, task_name,
                                                      isoformat(start_time), isoformat(end_time),
                                                      0, 0, "once")
                     IN  AllocateTask(
                            [db EXCEPT !.blocks = @ \cup {row}, !.next = @ + 1],
                            [slots EXCEPT ![i] = ConsumeSlot(@, allocation, end_time)],
                            user_id, task_id, task_name, remaining - allocation, i + 1)

RECURSIVE AllocateAll(_, _, _, _, _)
\* lines 96-115: the loop over the prioritized tasks
AllocateAll(db, slots, user_id, prioritized_task_list, k) ==
    IF k > Len(prioritized_task_list) THEN db
    ELSE LET task == prioritized_task_list[k].TASK_DETAIL
             r == AllocateTask(db, slots, user_id, task.id, task.name, task.required_time, 1)
             db2 == IF r.remaining > 0
                       THEN [r.db EXCEPT !.tasks = update_status(@, task.id, "INSUFFICIENT_TIME_WARNING")]
                       ELSE r.db
         IN  AllocateAll(db2, r.slots, user_id, prioritized_task_list, k + 1)

\* a slip: the tasks are served from the end of the prioritized list
allocate_time_slots_Reversed(db, user_id, prioritized_task_list, now) ==
    LET fixed_activities == get_fixed_activities(db.blocks, user_id)
        available_slots == calculate_free_time(fixed_activities, now)
        n == Len(prioritized_task_list)
    IN  IF available_slots = <<>> THEN db
        ELSE AllocateAll(db, available_slots, user_id,
                         [i \in 1..n |-> prioritized_task_list[n + 1 - i]], 1)

allocate_time_slots(db, user_id, prioritized_task_list, now) ==
    LET fixed_activities == get_fixed_activities(db.blocks, user_id)
        available_slots == calculate_free_time(fixed_activities, now)
    IN  IF available_slots = <<>> THEN db
        ELSE AllocateAll(db, available_slots, user_id, prioritized_task_list, 1)

\* app.py generate_schedule lines 788-800, also complete_task lines 854-863
regenerate(db, user_id, now) ==
    LET cleared == [db EXCEPT !.blocks = delete_flexible_schedule_blocks(@, user_id)]
        pending == fetch_tasks(cleared.tasks, user_id, "PENDING")
        prioritized == task_prioritization(pending, combine(now, 0))
    IN  allocate_time_slots(cleared, user_id, prioritized, now)

\* a slip: every task that is not COMPLETED is looked at
unscheduled_NotCompleted(ts, bs, user_id) ==
    {t \in ts : /\ t.user_id = user_id
                /\ t.status # "COMPLETED"
                /\ ~\E sb \in bs : sb.task_id = t.id /\ sb.user_id = t.user_id}

\* app.py generate_schedule lines 804-818: PENDING tasks without any block
unscheduled(ts, bs, user_id) ==
    {t \in ts : /\ t.user_id = user_id
                /\ t.status = "PENDING"
                /\ ~\E sb \in bs : sb.task_id = t.id /\ sb.user_id = t.user_id}

Store == [blocks |-> blocks, next |-> nextBlockId, tasks |-> tasks]

(***************************************************************************)
(* app.py: recurrence expander                                             *)
(***************************************************************************)
\* a slip: the last day of the range is left out
InRange_Exclusive(current_date, recurrence_end) == current_date < recurrence_end

\* line 314: the loop runs while the date is inside the inclusive range
InRange(current_date, recurrence_end) == current_date <= recurrence_end

\* line 316: no weekday selected counts as every weekday
DaySelected(selected_days, current_date) ==
    (selected_days = {}) \/ (weekday(current_date) \in selected_days)

\* a slip: the weeks are counted from the calendar, not from the range start
OffWeek_Calendar(recurrence_pattern, current_date, recurrence_start) ==
    LET weeks_diff == current_date \div 7
    IN  recurrence_pattern = "biweekly" /\ weeks_diff % 2 # 0

\* lines 324-328: biweekly keeps every other week counted from the range start
OffWeek(recurrence_pattern, current_date, recurrence_start) ==
    LET weeks_diff == (current_date - recurrence_start) \div 7
    IN  recurrence_pattern = "biweekly" /\ weeks_diff % 2 # 0

RECURSIVE expand_occurrences(_, _, _, _, _, _, _, _, _, _, _, _)
\* add_activity lines 312-335; edit_schedule_block repeats the loop at lines
\* 443-483 and 601-642 (there the empty weekday set is rejected beforehand).
\* check_conflict answers TRUE when the range is available.
expand_occurrences(failed_days, db, user_id, name, recurrence_pattern, recurrence_start, recurrence_end, selected_days, t_start, t_end, current_date, count) ==
    IF ~InRange(current_date, recurrence_end) THEN [db |-> db, count |-> count]
    ELSE LET block_start == combine(current_date, t_start)
             block_end == combine(current_date, t_end)
             insert ==
                 /\ DaySelected(selected_days, current_date)
                 /\ ~(block_end <= block_start)
                 /\ ~OffWeek(recurrence_pattern, current_date, recurrence_start)
                 /\ check_conflict(failed_days, db.blocks, user_id, block_start, block_end)
             row == insert_schedule_block(db.next, user_id, 0, name,
                                          isoformat(block_start), isoformat(block_end),
                                          1, 1, recurrence_pattern)
         IN  expand_occurrences(
                failed_days,
                IF insert THEN [db EXCEPT !.blocks = @ \cup {row}, !.next = @ + 1] ELSE db,
                user_id, name, recurrence_pattern, recurrence_start, recurrence_end,
                selected_days, t_start, t_end, current_date + 1,
                IF insert THEN count + 1 ELSE count)

\* datetime.time(): the time of day of a datetime
timeOf(dt) == dt % MinutesPerDay

(***************************************************************************)
(* database_manager / scheduling_algorithms: task completion               *)
(***************************************************************************)
\* a slip: the recurring flag is not looked at
handle_task_completion_Closes(ts, task_id, now) ==
    {IF t.id # task_id THEN t
     ELSE [t EXCEPT !.status = "COMPLETED", !.completion_date = now] : t \in ts}

\* the rows after handle_task_completion; now is today's date
handle_task_completion(ts, task_id, now) ==
    {IF t.id # task_id THEN t
     ELSE IF t.is_recurring # 0
        THEN [t EXCEPT !.due_date = @ + RecurDays, !.status = "PENDING"]
        ELSE [t EXCEPT !.status = "COMPLETED", !.completion_date = now] : t \in ts}

dynamic_rescheduling(ts, completed_task_id) ==
    LET found == get_task_by_id(ts, completed_task_id)
    IN  IF found = {} THEN ts
        ELSE IF (CHOOSE t \in found : TRUE).status = "COMPLETED" THEN ts
        ELSE update_status(ts, completed_task_id, "COMPLETED")

(***************************************************************************)
(* The requests the model submits.                                         *)
(***************************************************************************)
AllDays == 0..6

H(h, m) == h * MinutesPerHour + m

\* a task form whose subject field is left empty
TaskForm(name, due_date, required_time, priority_weight, is_recurring) ==
    [name |-> name, due_date |-> due_date, required_time |-> required_time,
     priority_weight |-> priority_weight, is_recurring |-> is_recurring,
     subject_id |-> 0]

\* the task form with a subject chosen
OfSubject(f, subject_id) == [f EXCEPT !.subject_id = subject_id]

ActivityForm(name, pattern, date, end_date, t_start, t_end, r_start, r_end, days) ==
    [activity_name |-> name, recurrence_pattern |-> pattern,
     date |-> date, end_date |-> end_date, t_start |-> t_start, t_end |-> t_end,
     recurrence_start |-> r_start, recurrence_end |-> r_end, days |-> days]

Flash(user_id, msg, count) == [user |-> user_id, msg |-> msg, count |-> count]

(***************************************************************************)
(* app.py: the request handlers                                            *)
(***************************************************************************)
add_task(user_id, f) ==
    /\ IF f.required_time <= 0
          THEN /\ flash' = Flash(user_id, "Required time cannot be zero", 0)
               /\ UNCHANGED <<tasks, nextTaskId>>
          ELSE /\ tasks' = tasks \cup {insert_task(nextTaskId, user_id, f.subject_id,
                                                   f.name, f.due_date,
                                                   f.required_time, f.priority_weight,
                                                   f.is_recurring)}
               /\ nextTaskId' = nextTaskId + 1
               /\ flash' = Flash(user_id, "Task added", 0)
    /\ UNCHANGED <<blocks, nextBlockId, today, requests, serial>>

edit_task(user_id, task_id, f) ==
    LET found == {t \in get_task_by_id(tasks, task_id) : t.user_id = user_id}
    IN  /\ IF found = {}
              THEN /\ flash' = Flash(user_id, "Task not found.", 0)
                   /\ UNCHANGED tasks
              ELSE IF f.required_time <= 0
              THEN /\ flash' = Flash(user_id, "Required time cannot be zero", 0)
                   /\ UNCHANGED tasks
              ELSE /\ tasks' = update_task(tasks, task_id, user_id, f.name, f.due_date,
                                           f.required_time, f.priority_weight,
                                           f.subject_id)
                   /\ flash' = Flash(user_id, "Task updated", 0)
        /\ UNCHANGED <<blocks, nextTaskId, nextBlockId, today, requests, serial>>

generate_schedule(user_id) ==
    LET r == regenerate(Store, user_id, today)
        missing == unscheduled(r.tasks, r.blocks, user_id)
    IN  /\ blocks' = r.blocks
        /\ tasks' = r.tasks
        /\ nextBlockId' = r.next
        /\ flash' = IF missing # {}
                       THEN Flash(user_id, "Some tasks could not be scheduled", Cardinality(missing))
                       ELSE Flash(user_id, "Schedule generated.", 0)
        /\ UNCHANGED <<nextTaskId, today, requests, serial>>

complete_task(user_id, task_id) ==
    LET found == get_task_by_id(tasks, task_id)
        task == CHOOSE t \in found : TRUE
        completed == handle_task_completion(tasks, task_id, today)
        r == regenerate([Store EXCEPT !.tasks = completed], user_id, today)
    IN  /\ IF found = {}
              THEN /\ flash' = Flash(user_id, "Task not found.", 0)
                   /\ UNCHANGED <<tasks, blocks, nextBlockId>>
              ELSE IF task.is_recurring # 0
              THEN /\ blocks' = r.blocks
                   /\ tasks' = r.tasks
                   /\ nextBlockId' = r.next
                   /\ flash' = Flash(user_id, "Task reset for next week", 0)
              ELSE /\ tasks' = dynamic_rescheduling(completed, task_id)
                   /\ flash' = Flash(user_id, "Task marked completed. Schedule adjusted.", 0)
                   /\ UNCHANGED <<blocks, nextBlockId>>
        /\ UNCHANGED <<nextTaskId, today, requests, serial>>

\* add_activity for a request during which the detector raises for the dates
\* failed_days
add_activity_env(failed_days, user_id, f) ==
    LET new_start == combine(f.date, f.t_start)
        new_end == combine(f.date, f.t_end)
        e == expand_occurrences(failed_days, Store, user_id, f.activity_name,
                                    f.recurrence_pattern,
                                    f.recurrence_start, f.recurrence_end, f.days,
                                    f.t_start, f.t_end, f.recurrence_start, 0)
    IN  /\ IF f.recurrence_pattern = "once"
              THEN IF new_end <= new_start
                      THEN /\ flash' = Flash(user_id, "End must be after start", 0)
                           /\ UNCHANGED <<blocks, nextBlockId>>
                   ELSE IF ~check_conflict(failed_days, blocks, user_id, new_start, new_end)
                      THEN /\ flash' = Flash(user_id, "Conflict with existing schedule", 0)
                           /\ UNCHANGED <<blocks, nextBlockId>>
                   ELSE /\ blocks' = blocks \cup
                               {insert_schedule_block(nextBlockId, user_id, 0, f.activity_name,
                                                      isoformat(new_start), isoformat(new_end),
                                                      1, 0, "once")}
                        /\ nextBlockId' = nextBlockId + 1
                        /\ flash' = Flash(user_id, "Fixed activity added", 0)
              ELSE IF f.recurrence_end < f.recurrence_start
                      THEN /\ flash' = Flash(user_id, "End date must be after start date", 0)
                           /\ UNCHANGED <<blocks, nextBlockId>>
                   ELSE /\ blocks' = e.db.blocks
                        /\ nextBlockId' = e.db.next
                        /\ flash' = Flash(user_id, "activity added (occurrences)", e.count)
        /\ UNCHANGED <<tasks, nextTaskId, today, requests, serial>>

add_activity(user_id, f) == add_activity_env({}, user_id, f)

\* a slip: the occurrence with the lowest id survives the delete
delete_series_KeepsFirst(bs, user_id, old_name, old_pattern) ==
    LET old_blocks == get_schedule_blocks_by_activity(bs, user_id, old_name, old_pattern)
    IN  {b \in bs : \A ob \in old_blocks :
                        \/ ~(b.id = ob.id /\ b.user_id = user_id)
                        \/ \A o2 \in old_blocks : ob.id <= o2.id}

\* edit_schedule_block lines 434-438 and 491-495: the old series is fetched by
\* (name, pattern) and every row of it is deleted by id
delete_series(bs, user_id, old_name, old_pattern) ==
    {b \in bs : \A ob \in get_schedule_blocks_by_activity(bs, user_id, old_name, old_pattern) :
                    ~(b.id = ob.id /\ b.user_id = user_id)}

\* edit_schedule_block for a request during which the detector raises for the
\* dates failed_days
edit_schedule_block_env(failed_days, user_id, block_id, f) ==
    LET found == get_schedule_block_by_id(blocks, block_id, user_id)
        block == CHOOSE b \in found : TRUE
        name == f.activity_name
        recurrence_pattern == f.recurrence_pattern
        new_start == combine(f.date, f.t_start)
        new_end == combine(f.end_date, f.t_end)
        recurring_form == recurrence_pattern \in {"weekly", "biweekly"}
        \* the store after the delete that precedes the expansion
        removed == IF block.is_recurring # 0
                      THEN delete_series(blocks, user_id, block.activity_name,
                                         block.recurrence_pattern)
                      ELSE delete_schedule_block(blocks, block_id, user_id)
        e == expand_occurrences(failed_days, [Store EXCEPT !.blocks = removed],
                                    user_id, name,
                                    recurrence_pattern, f.recurrence_start, f.recurrence_end,
                                    f.days, timeOf(new_start), timeOf(new_end),
                                    f.recurrence_start, 0)
    IN  /\ IF found = {}
              THEN /\ flash' = Flash(user_id, "Activity not found.", 0)
                   /\ UNCHANGED <<blocks, nextBlockId>>
           ELSE IF new_start >= new_end
              THEN /\ flash' = Flash(user_id, "Start time must be before end time", 0)
                   /\ UNCHANGED <<blocks, nextBlockId>>
           ELSE IF recurring_form /\ f.days = {}
              THEN /\ flash' = Flash(user_id, "Please select at least one day", 0)
                   /\ UNCHANGED <<blocks, nextBlockId>>
           ELSE IF recurring_form /\ f.recurrence_end < f.recurrence_start
              THEN /\ flash' = Flash(user_id, "End date must be after start date", 0)
                   /\ UNCHANGED <<blocks, nextBlockId>>
           ELSE IF recurring_form
              THEN \* series regenerated, or one-time activity turned into a series
                   /\ blocks' = e.db.blocks
                   /\ nextBlockId' = e.db.next
                   /\ flash' = Flash(user_id, "Updated occurrences", e.count)
           ELSE IF block.is_recurring # 0
              THEN \* series turned into a one-time activity
                   /\ blocks' = removed \cup
                          {insert_schedule_block(nextBlockId, user_id, 0, name,
                                                 isoformat(new_start), isoformat(new_end),
                                                 1, 0, "once")}
                   /\ nextBlockId' = nextBlockId + 1
                   /\ flash' = Flash(user_id, "Updated activity", 0)
           ELSE \* one-time activity updated in place
                /\ blocks' = update_schedule_block(blocks, block_id, user_id, name,
                                                   isoformat(new_start), isoformat(new_end))
                /\ flash' = Flash(user_id, "Updated activity", 0)
                /\ UNCHANGED nextBlockId
        /\ UNCHANGED <<tasks, nextTaskId, today, requests, serial>>

edit_schedule_block(user_id, block_id, f) ==
    edit_schedule_block_env({}, user_id, block_id, f)

delete_schedule_block_view(user_id, block_id) ==
    /\ blocks' = delete_schedule_block(blocks, block_id, user_id)
    /\ flash' = Flash(user_id, "Schedule block deleted", 0)
    /\ UNCHANGED <<tasks, nextTaskId, nextBlockId, today, requests, serial>>

delete_all_recurring_blocks_view(user_id, block_id) ==
    LET found == get_schedule_block_by_id(blocks, block_id, user_id)
        block == CHOOSE b \in found : TRUE
        series == get_schedule_blocks_by_activity(blocks, user_id, block.activity_name,
                                                  block.recurrence_pattern)
    IN  /\ IF found = {}
              THEN /\ flash' = Flash(user_id, "Block not found", 0)
                   /\ UNCHANGED blocks
           ELSE IF block.recurrence_pattern \in {"weekly", "biweekly"}
              THEN /\ blocks' = delete_all_recurring_activities(blocks, user_id,
                                     block.activity_name, block.recurrence_pattern)
                   /\ flash' = Flash(user_id, "Deleted all occurrences", Cardinality(series))
           ELSE /\ blocks' = delete_schedule_block(blocks, block_id, user_id)
                /\ flash' = Flash(user_id, "Schedule block deleted", 0)
        /\ UNCHANGED <<tasks, nextTaskId, nextBlockId, today, requests, serial>>

delete_task_view(user_id, task_id) ==
    /\ blocks' = delete_task_blocks(blocks, task_id, user_id)
    /\ tasks' = delete_task_rows(tasks, task_id, user_id)
    /\ flash' = Flash(user_id, "Task deleted", 0)
    /\ UNCHANGED <<nextTaskId, nextBlockId, today, requests, serial>>

\* app.py delete_subject (lines 959-966)
delete_subject(user_id, subject_id) ==
    /\ tasks' = delete_subject_rows(tasks, subject_id, user_id)
    /\ flash' = Flash(user_id, "Subject and its tasks deleted", 0)
    /\ UNCHANGED <<blocks, nextTaskId, nextBlockId, today, requests, serial>>

reset_data_view(user_id) ==
    /\ blocks' = {b \in blocks : b.user_id # user_id}
    /\ tasks' = {t \in tasks : t.user_id # user_id}
    /\ flash' = Flash(user_id, "All your subjects, tasks and schedule blocks have been deleted.", 0)
    /\ UNCHANGED <<nextTaskId, nextBlockId, today, requests, serial>>

\* datetime.strptime(task['due_date'], '%Y-%m-%d').date()
strptime_date(x) == x.val

\* the rows of a list of task rows as a set
Rows(seq) == {seq[i] : i \in 1..Len(seq)}

\* /progress: the report of the current week (Monday to Sunday), read only
weekly_progress_view(user_id, now) ==
    LET all_pending == Rows(fetch_tasks(tasks, user_id, "PENDING"))
        all_completed == Rows(fetch_tasks(tasks, user_id, "COMPLETED"))
        start_of_week == now - weekday(now)
        end_of_week == start_of_week + 6
    IN  [missed_tasks |-> {t.id : t \in {r \in all_pending : strptime_date(r.due_date) < now}},
         pending_tasks |-> {t.id : t \in {r \in all_pending :
                                /\ ~(strptime_date(r.due_date) < now)
                                /\ strptime_date(r.due_date) <= end_of_week}},
         completed_tasks |-> {t.id : t \in {r \in all_completed :
                                /\ r.completion_date # -1
                                /\ start_of_week <= r.completion_date
                                /\ r.completion_date <= end_of_week}}]

\* the report taken over the week of now instead of the week before
weekly_report_view_ThisWeek(user_id, now) ==
    LET all_pending == Rows(fetch_tasks(tasks, user_id, "PENDING"))
        all_completed == Rows(fetch_tasks(tasks, user_id, "COMPLETED"))
        start_of_week == now - weekday(now)
        end_of_week == start_of_week + 6
        all == all_pending \cup all_completed
        CompletedInWeek(r) == /\ r.completion_date # -1
                              /\ start_of_week <= r.completion_date
                              /\ r.completion_date <= end_of_week
        DueInWeek(r) == /\ start_of_week <= strptime_date(r.due_date)
                        /\ strptime_date(r.due_date) <= end_of_week
    IN  [completed_tasks |-> {t.id : t \in {r \in all :
                                \/ CompletedInWeek(r)
                                \/ DueInWeek(r) /\ r.status = "COMPLETED"}},
         missed_tasks |-> {t.id : t \in {r \in all :
                                /\ ~CompletedInWeek(r) /\ DueInWeek(r)
                                /\ r.status # "COMPLETED"
                                /\ strptime_date(r.due_date) < now}},
         pending_tasks |-> {t.id : t \in {r \in all :
                                /\ ~CompletedInWeek(r) /\ DueInWeek(r)
                                /\ r.status # "COMPLETED"
                                /\ ~(strptime_date(r.due_date) < now)}}]

\* /weekly_report: the report of last week (previous Monday to Sunday), read only
weekly_report_view(user_id, now) ==
    LET all_pending == Rows(fetch_tasks(tasks, user_id, "PENDING"))
        all_completed == Rows(fetch_tasks(tasks, user_id, "COMPLETED"))
        start_of_week == now - (weekday(now) + 7)
        end_of_week == start_of_week + 6
        all == all_pending \cup all_completed
        CompletedInWeek(r) == /\ r.completion_date # -1
                              /\ start_of_week <= r.completion_date
                              /\ r.completion_date <= end_of_week
        DueInWeek(r) == /\ start_of_week <= strptime_date(r.due_date)
                        /\ strptime_date(r.due_date) <= end_of_week
    IN  [completed_tasks |-> {t.id : t \in {r \in all :
                                \/ CompletedInWeek(r)
                                \/ DueInWeek(r) /\ r.status = "COMPLETED"}},
         missed_tasks |-> {t.id : t \in {r \in all :
                                /\ ~CompletedInWeek(r) /\ DueInWeek(r)
                                /\ r.status # "COMPLETED"
                                /\ strptime_date(r.due_date) < now}},
         pending_tasks |-> {t.id : t \in {r \in all :
                                /\ ~CompletedInWeek(r) /\ DueInWeek(r)
                                /\ r.status # "COMPLETED"
                                /\ ~(strptime_date(r.due_date) < now)}}]

(***************************************************************************)
(* generate_schedule as the server runs it: a request is served by a       *)
(* worker thread, every database call opens its own connection and commits *)
(* on its own, and the requests of two workers interleave between the      *)
(* calls.  requests[w] is the position of worker w and what it has read;   *)
(* serial says that the requests of a user are served one after the other. *)
(***************************************************************************)
Workers == {1, 2}

Idle == [pc |-> "idle", user_id |-> 0, prioritized |-> <<>>]

\* app.py line 788: the flexible blocks of the user are deleted
generate_delete(w, user_id) ==
    /\ requests[w].pc = "idle"
    /\ serial => \A v \in Workers : requests[v].user_id # user_id
    /\ blocks' = delete_flexible_schedule_blocks(blocks, user_id)
    /\ requests' = [requests EXCEPT ![w] = [pc |-> "read", user_id |-> user_id,
                                            prioritized |-> <<>>]]
    /\ UNCHANGED <<tasks, nextTaskId, nextBlockId, today, flash, serial>>

\* app.py lines 791-792: the PENDING tasks are read and put in priority order
generate_read(w) ==
    /\ requests[w].pc = "read"
    /\ requests' = [requests EXCEPT ![w].pc = "insert",
                                    ![w].prioritized =
                                        task_prioritization(
                                            fetch_tasks(tasks, requests[w].user_id, "PENDING"),
                                            combine(today, 0))]
    /\ UNCHANGED <<tasks, blocks, nextTaskId, nextBlockId, today, flash, serial>>

\* app.py lines 794-800: allocate_time_slots inserts the blocks of the tasks
\* read before and flags the tasks it cannot place in full
generate_insert(w) ==
    LET r == allocate_time_slots(Store, requests[w].user_id, requests[w].prioritized, today)
    IN  /\ requests[w].pc = "insert"
        /\ blocks' = r.blocks
        /\ tasks' = r.tasks
        /\ nextBlockId' = r.next
        /\ requests' = [requests EXCEPT ![w].pc = "detect"]
        /\ UNCHANGED <<nextTaskId, today, flash, serial>>

\* app.py lines 804-834: the detection query and the message of the request
generate_detect(w) ==
    LET missing == unscheduled(tasks, blocks, requests[w].user_id)
    IN  /\ requests[w].pc = "detect"
        /\ flash' = IF missing # {}
                       THEN Flash(requests[w].user_id, "Some tasks could not be scheduled",
                                  Cardinality(missing))
                       ELSE Flash(requests[w].user_id, "Schedule generated.", 0)
        /\ requests' = [requests EXCEPT ![w] = Idle]
        /\ UNCHANGED <<tasks, blocks, nextTaskId, nextBlockId, today, serial>>

\* midnight passes: date.today() / datetime.now() advance by one day
NextDay ==
    /\ today' = today + 1
    /\ UNCHANGED <<tasks, blocks, nextTaskId, nextBlockId, flash, requests, serial>>

(***************************************************************************)
(* Specifications.  The handlers above take any request; a specification   *)
(* names the requests that are submitted and keeps the AUTOINCREMENT keys, *)
(* the due dates and the calendar within the bounds.                       *)
(***************************************************************************)

Init ==
    /\ tasks = {}
    /\ blocks = {}
    /\ nextTaskId = 1
    /\ nextBlockId = 1
    /\ today = 1
    /\ flash = Flash(0, "", 0)
    /\ requests = [w \in Workers |-> Idle]
    /\ serial = TRUE

TaskIds == 1..MaxTaskId

\* today is day 1 at the start: day 0 is yesterday, day 31 is 30 days ahead
Bound ==
    /\ nextTaskId' <= MaxTaskId + 1
    /\ nextBlockId' <= MaxBlockId + 1
    /\ today' <= MaxToday
    /\ \A t \in tasks' : t.due_date <= MaxDueDate

(***************************************************************************)
(* SpecPlan: tasks are declared, fixed one-time activities are added and   *)
(* the schedule is generated.                                              *)
(***************************************************************************)
PlanTaskForms ==
    { TaskForm("T", 0, Minutes(90), 1, 0),
      TaskForm("T", 31, Minutes(90), 100, 0),
      TaskForm("T", 31, Minutes(6000), 50, 0) }

PlanActivityForms ==
    { ActivityForm("A", "once", 2, 2, H(9, 0), H(10, 0), 2, 2, {}),
      ActivityForm("A", "once", 3, 3, H(7, 0), H(21, 50), 3, 3, {}) }

NextPlan ==
    \/ \E u \in Users, f \in PlanTaskForms : add_task(u, f) /\ Bound
    \/ \E u \in Users, f \in PlanActivityForms : add_activity(u, f) /\ Bound
    \/ \E u \in Users : generate_schedule(u) /\ Bound
    \/ NextDay /\ Bound

SpecPlan == Init /\ [][NextPlan]_vars

(***************************************************************************)
(* SpecTasks: the life cycle of one task.                                  *)
(***************************************************************************)
LifeTaskForms ==
    { TaskForm("T", 31, Minutes(6000), 1, 0),
      TaskForm("T", 31, 0, 1, 0) }

LifeEditForms ==
    { TaskForm("T", 0, Minutes(6000), 100, 0) }

LifeActivityForms ==
    { ActivityForm("A", "once", 2, 2, H(9, 0), H(10, 0), 2, 2, {}) }

\* one task fewer than in SpecPlan
LifeBound ==
    /\ Bound
    /\ nextTaskId' <= MaxTaskId

NextTasks ==
    \/ \E u \in Users, f \in LifeTaskForms : add_task(u, f) /\ LifeBound
    \/ \E u \in Users, id \in TaskIds, f \in LifeEditForms : edit_task(u, id, f) /\ LifeBound
    \/ \E u \in Users, id \in TaskIds : complete_task(u, id) /\ LifeBound
    \/ \E u \in Users, id \in TaskIds : delete_task_view(u, id) /\ LifeBound
    \/ \E u \in Users : generate_schedule(u) /\ LifeBound
    \/ \E u \in Users, f \in LifeActivityForms : add_activity(u, f) /\ LifeBound
    \/ NextDay /\ LifeBound

SpecTasks == Init /\ [][NextTasks]_vars

(***************************************************************************)
(* SpecRecur: the life cycle of one recurring task.                        *)
(***************************************************************************)
RecurTaskForms ==
    { TaskForm("T", 31, Minutes(6000), 50, 1),
      TaskForm("T", 31, Minutes(90), 50, 1) }

NextRecur ==
    \/ \E u \in Users, f \in RecurTaskForms : add_task(u, f) /\ LifeBound
    \/ \E u \in Users, id \in TaskIds, f \in LifeEditForms : edit_task(u, id, f) /\ LifeBound
    \/ \E u \in Users, id \in TaskIds : complete_task(u, id) /\ LifeBound
    \/ \E u \in Users, id \in TaskIds : delete_task_view(u, id) /\ LifeBound
    \/ \E u \in Users : generate_schedule(u) /\ LifeBound
    \/ NextDay /\ LifeBound

SpecRecur == Init /\ [][NextRecur]_vars

(***************************************************************************)
(* SpecSeries: fixed activities and recurring series are added and edited  *)
(* next to the flexible blocks of one short task.                          *)
(***************************************************************************)
SeriesTaskForms ==
    { TaskForm("T", 31, Minutes(90), 1, 0) }

SeriesActivityForms ==
    { ActivityForm("A", "once", 2, 2, H(9, 0), H(10, 0), 2, 2, {}),
      ActivityForm("A", "weekly", 2, 2, H(9, 30), H(10, 30), 2, 4, AllDays),
      ActivityForm("B", "weekly", 7, 7, H(9, 0), H(10, 0), 7, 20, {0}),
      ActivityForm("B", "biweekly", 7, 7, H(9, 0), H(10, 0), 7, 34, {0}),
      ActivityForm("B", "biweekly", 9, 9, H(10, 0), H(11, 0), 8, 22, {0, 2}) }

SeriesEditForms ==
    { ActivityForm("A", "once", 2, 2, H(9, 30), H(10, 30), 2, 2, {}),
      ActivityForm("B", "biweekly", 9, 9, H(10, 0), H(11, 0), 8, 22, {0, 2}) }

\* one task fewer than in SpecPlan
SeriesBound ==
    /\ nextTaskId' <= MaxTaskId
    /\ nextBlockId' <= MaxSeriesBlockId + 1

SeriesBlockIds == 1..MaxSeriesBlockId

NextSeries ==
    \/ \E u \in Users, f \in SeriesActivityForms : add_activity(u, f) /\ SeriesBound
    \/ \E u \in Users, id \in SeriesBlockIds, f \in SeriesEditForms :
            edit_schedule_block(u, id, f) /\ SeriesBound
    \/ \E u \in Users, f \in SeriesTaskForms : add_task(u, f) /\ SeriesBound
    \/ \E u \in Users : generate_schedule(u) /\ SeriesBound

SpecSeries == Init /\ [][NextSeries]_vars

(***************************************************************************)
(* SpecStore: blocks are stored and deleted: one-time activities, a short  *)
(* series and the flexible blocks of one short task.                       *)
(***************************************************************************)
StoreActivityForms ==
    { ActivityForm("A", "once", 2, 2, H(9, 0), H(10, 0), 2, 2, {}),
      ActivityForm("A", "once", 2, 2, H(10, 0), H(9, 0), 2, 2, {}),
      ActivityForm("A", "weekly", 2, 2, H(9, 30), H(10, 30), 2, 4, AllDays) }

NextStore ==
    \/ \E u \in Users, f \in StoreActivityForms : add_activity(u, f) /\ SeriesBound
    \/ \E u \in Users, id \in SeriesBlockIds : delete_schedule_block_view(u, id) /\ SeriesBound
    \/ \E u \in Users, id \in SeriesBlockIds : delete_all_recurring_blocks_view(u, id) /\ SeriesBound
    \/ \E u \in Users, f \in SeriesTaskForms : add_task(u, f) /\ SeriesBound
    \/ \E u \in Users : generate_schedule(u) /\ SeriesBound
    \/ \E u \in Users : reset_data_view(u) /\ SeriesBound

SpecStore == Init /\ [][NextStore]_vars

(***************************************************************************)
(* SpecForms: series requests that break the input rules of the expander   *)
(* (no weekday, time of day not in order) next to valid ones.              *)
(***************************************************************************)
FormsActivityForms ==
    { ActivityForm("A", "once", 2, 2, H(9, 0), H(10, 0), 2, 2, {}),
      ActivityForm("A", "weekly", 2, 2, H(9, 30), H(10, 30), 2, 3, AllDays),
      ActivityForm("C", "weekly", 2, 2, H(11, 0), H(12, 0), 2, 3, {}),
      ActivityForm("C", "biweekly", 2, 2, H(12, 0), H(11, 0), 2, 3, AllDays) }

FormsEditForms ==
    { ActivityForm("A", "weekly", 2, 2, H(9, 30), H(10, 30), 2, 3, {}),
      ActivityForm("A", "weekly", 2, 3, H(22, 0), H(1, 0), 2, 3, AllDays),
      ActivityForm("A", "once", 2, 2, H(10, 0), H(9, 0), 2, 2, {}) }

NextForms ==
    \/ \E u \in Users, f \in FormsActivityForms : add_activity(u, f) /\ SeriesBound
    \/ \E u \in Users, id \in SeriesBlockIds, f \in FormsEditForms :
            edit_schedule_block(u, id, f) /\ SeriesBound

SpecForms == Init /\ [][NextForms]_vars

(***************************************************************************)
(* SpecShared: two users work on the same store.                           *)
(***************************************************************************)
TwoUsers == {1, 2}

NextShared ==
    \/ \E u \in TwoUsers, f \in SeriesTaskForms : add_task(u, f) /\ SeriesBound
    \/ \E u \in TwoUsers, id \in TaskIds, f \in LifeEditForms : edit_task(u, id, f) /\ SeriesBound
    \/ \E u \in TwoUsers, id \in TaskIds : complete_task(u, id) /\ SeriesBound
    \/ \E u \in TwoUsers, id \in TaskIds : delete_task_view(u, id) /\ SeriesBound
    \/ \E u \in TwoUsers : generate_schedule(u) /\ SeriesBound
    \/ \E u \in TwoUsers, f \in LifeActivityForms : add_activity(u, f) /\ SeriesBound
    \/ \E u \in TwoUsers, id \in SeriesBlockIds : delete_schedule_block_view(u, id) /\ SeriesBound
    \/ \E u \in TwoUsers : reset_data_view(u) /\ SeriesBound

SpecShared == Init /\ [][NextShared]_vars

(***************************************************************************)
(* SpecReplace: a one-time activity and a series are stored, and the       *)
(* series is edited as a whole: moved in time, or renamed with new days.   *)
(***************************************************************************)
ReplaceActivityForms ==
    { ActivityForm("A", "once", 2, 2, H(9, 0), H(10, 0), 2, 2, {}),
      ActivityForm("B", "weekly", 7, 7, H(9, 0), H(10, 0), 7, 20, {0}) }

ReplaceEditForms ==
    { ActivityForm("B", "weekly", 7, 7, H(11, 0), H(12, 0), 7, 20, {0}),
      ActivityForm("C", "biweekly", 3, 3, H(9, 0), H(10, 0), 3, 4, AllDays) }

\* one block more than in SpecSeries
ReplaceBound == nextBlockId' <= MaxSeriesBlockId + 2

ReplaceBlockIds == 1..(MaxSeriesBlockId + 1)

NextReplace ==
    \/ \E u \in Users, f \in ReplaceActivityForms : add_activity(u, f) /\ ReplaceBound
    \/ \E u \in Users, id \in ReplaceBlockIds, f \in ReplaceEditForms :
            edit_schedule_block(u, id, f) /\ ReplaceBound
    \/ \E u \in Users, id \in ReplaceBlockIds :
            delete_schedule_block_view(u, id) /\ ReplaceBound

SpecReplace == Init /\ [][NextReplace]_vars

(***************************************************************************)
(* SpecFault: activities are added and edited while the reads of the       *)
(* conflict detector fail for the occurrences of some dates.               *)
(***************************************************************************)
FaultActivityForms ==
    { ActivityForm("A", "once", 2, 2, H(9, 0), H(10, 0), 2, 2, {}),
      ActivityForm("A", "weekly", 2, 2, H(9, 30), H(10, 30), 2, 3, AllDays) }

FaultEditForms ==
    { ActivityForm("A", "weekly", 2, 2, H(9, 30), H(10, 30), 2, 3, AllDays),
      ActivityForm("A", "once", 2, 2, H(9, 30), H(10, 30), 2, 2, {}) }

FaultDays == SUBSET {2, 3}

NextFault ==
    \/ \E u \in Users, f \in FaultActivityForms, fd \in FaultDays :
            add_activity_env(fd, u, f) /\ SeriesBound
    \/ \E u \in Users, id \in SeriesBlockIds, f \in FaultEditForms, fd \in FaultDays :
            edit_schedule_block_env(fd, u, id, f) /\ SeriesBound

SpecFault == Init /\ [][NextFault]_vars

(***************************************************************************)
(* SpecInterleave: two workers serve schedule generations of one user      *)
(* whose tasks are declared meanwhile; the requests either interleave      *)
(* freely or are served one after the other.                               *)
(***************************************************************************)
InterleaveTaskForms ==
    { TaskForm("T", 31, Minutes(90), 1, 0),
      TaskForm("T", 31, Minutes(60), 100, 0) }

InitInterleave ==
    /\ tasks = {}
    /\ blocks = {}
    /\ nextTaskId = 1
    /\ nextBlockId = 1
    /\ today = 1
    /\ flash = Flash(0, "", 0)
    /\ requests = [w \in Workers |-> Idle]
    /\ serial \in BOOLEAN

\* the request of a form is served between the steps of the generations,
\* or, when requests are served one after the other, between generations
NextInterleave ==
    \/ \E u \in Users, f \in InterleaveTaskForms :
            /\ serial => \A v \in Workers : requests[v].user_id # u
            /\ add_task(u, f) /\ SeriesBound
    \/ \E w \in Workers, u \in Users : generate_delete(w, u) /\ SeriesBound
    \/ \E w \in Workers : generate_read(w) /\ SeriesBound
    \/ \E w \in Workers : generate_insert(w) /\ SeriesBound
    \/ \E w \in Workers : generate_detect(w) /\ SeriesBound

SpecInterleave == InitInterleave /\ [][NextInterleave]_vars

(***************************************************************************)
(* SpecSubject: tasks with and without a subject are declared, scheduled   *)
(* and deleted, one by one or with their subject.                          *)
(***************************************************************************)
SubjectIds == {1}

SubjectTaskForms ==
    { TaskForm("T", 31, Minutes(90), 1, 0),
      OfSubject(TaskForm("T", 31, Minutes(90), 100, 0), 1) }

SubjectBound ==
    /\ nextTaskId' <= MaxTaskId + 1
    /\ nextBlockId' <= MaxSeriesBlockId + 1

NextSubject ==
    \/ \E u \in Users, f \in SubjectTaskForms : add_task(u, f) /\ SubjectBound
    \/ \E u \in Users : generate_schedule(u) /\ SubjectBound
    \/ \E u \in Users, id \in TaskIds : delete_task_view(u, id) /\ SubjectBound
    \/ \E u \in Users, sid \in SubjectIds : delete_subject(u, sid) /\ SubjectBound
    \/ \E u \in Users : reset_data_view(u) /\ SubjectBound

SpecSubject == Init /\ [][NextSubject]_vars

(***************************************************************************)
(* SpecReport: tasks due last week, this week and two weeks ago are        *)
(* declared and completed while the days pass into the next week; the      *)
(* reports are read in every state.                                        *)
(***************************************************************************)
ReportTaskForms ==
    { TaskForm("T", -1, Minutes(60), 1, 0),
      TaskForm("T", 6, Minutes(60), 1, 0),
      TaskForm("T", -8, Minutes(60), 1, 0) }

ReportBound ==
    /\ nextTaskId' <= MaxTaskId + 1
    /\ nextBlockId' <= MaxSeriesBlockId + 1
    /\ today' <= MaxToday + 5

NextReport ==
    \/ \E u \in Users, f \in ReportTaskForms : add_task(u, f) /\ ReportBound
    \/ \E u \in Users, id \in TaskIds : complete_task(u, id) /\ ReportBound
    \/ NextDay /\ ReportBound

SpecReport == Init /\ [][NextReport]_vars

(***************************************************************************)
(* SpecFull: a series of fixed activities fills the planning window of     *)
(* every day of the coming week, or a single activity takes one hour of    *)
(* it, and the schedule is generated for short and long tasks.             *)
(***************************************************************************)
FullActivityForms ==
    { ActivityForm("A", "weekly", 2, 2, H(8, 0), H(22, 0), 2, 8, AllDays),
      ActivityForm("A", "once", 2, 2, H(9, 0), H(10, 0), 2, 2, {}) }

NextFull ==
    \/ \E u \in Users, f \in PlanTaskForms : add_task(u, f) /\ Bound
    \/ \E u \in Users, f \in FullActivityForms : add_activity(u, f) /\ Bound
    \/ \E u \in Users : generate_schedule(u) /\ Bound

SpecFull == Init /\ [][NextFull]_vars

(***************************************************************************)
(* SpecRound: tasks whose effort is not a whole number of units of the     *)
(* timestamp resolution are scheduled beside a long task and a fixed       *)
(* activity.                                                               *)
(***************************************************************************)
RoundTaskForms ==
    { TaskForm("T", 31, 1, 100, 0),
      TaskForm("T", 31, 3, 100, 0),
      TaskForm("T", 31, Minutes(840), 50, 0) }

\* one task more than SpecPlan
RoundBound ==
    /\ nextTaskId' <= MaxTaskId + 2
    /\ nextBlockId' <= MaxBlockId + 1

NextRound ==
    \/ \E u \in Users, f \in RoundTaskForms : add_task(u, f) /\ RoundBound
    \/ \E u \in Users, f \in LifeActivityForms : add_activity(u, f) /\ RoundBound
    \/ \E u \in Users : generate_schedule(u) /\ RoundBound

SpecRound == Init /\ [][NextRound]_vars

(***************************************************************************)
(* Properties                                                              *)
(***************************************************************************)
Start(b) == fromisoformat(b.start_time)
End(b) == fromisoformat(b.end_time)

\* the half-open interval test of the specification
Overlap(s1, e1, s2, e2) == s1 < e2 /\ s2 < e1
Overlaps(b, c) == Overlap(Start(b), End(b), Start(c), End(c))

\* the rows a step inserts carry the keys from nextBlockId on
Inserted == {b \in blocks' : b.id >= nextBlockId}
InsertedFlexible == {b \in Inserted : b.is_fixed = 0}

Hour(d, h) == combine(d, h * MinutesPerHour)

C2_FlexibleAvoidsFixed ==
    [][/\ \A b \in InsertedFlexible : \A fx \in blocks :
             (fx.is_fixed = 1 /\ fx.user_id = b.user_id) => ~Overlaps(b, fx)
       /\ \A u \in Users :
             LET fixed == {fx \in blocks : fx.user_id = u /\ fx.is_fixed = 1}
                 pending == {t \in tasks : t.user_id = u /\ t.status = "PENDING"}
                 tomorrow == today + 1
             IN  ( /\ Cardinality(fixed) = 1
                   /\ \A fx \in fixed : Start(fx) = Hour(tomorrow, 9) /\ End(fx) = Hour(tomorrow, 10)
                   /\ Cardinality(pending) = 1
                   /\ \A t \in pending : t.required_time = Minutes(90)
                   /\ generate_schedule(u) )
                 => {<<b.task_id, Start(b), End(b)>> : b \in InsertedFlexible}
                      = UNION {{<<t.id, Hour(tomorrow, 8), Hour(tomorrow, 9)>>,
                                <<t.id, Hour(tomorrow, 10), Hour(tomorrow, 10) + 30>>}
                               : t \in pending}]_vars

\* C3: every flexible block a schedule generation inserts starts at or after
\* 08:00 and ends at or before 22:00 of one calendar day, and that day is 1
\* to 7 days after the day of the call.
C3_FlexibleInsideWindow ==
    [][\A b \in InsertedFlexible :
          LET d == dateOf(Start(b))
          IN  /\ Start(b) >= Hour(d, 8)
              /\ End(b) <= Hour(d, 22)
              /\ d - today \in 1..7]_vars

RECURSIVE SumMinutes(_)
SumMinutes(bs) ==
    IF bs = {} THEN 0
    ELSE LET b == CHOOSE x \in bs : TRUE
         IN  (End(b) - Start(b)) + SumMinutes(bs \ {b})

\* the time allocated to a task: the total length of its blocks
AllocatedMinutes(bs, task_id) == SumMinutes({b \in bs : b.task_id = task_id})

\* C4: a second schedule generation right after the first, on the same day
\* and with nothing changed in between, leaves every task of the user with
\* the allocated time it had after the first.
C4_TwiceSameAllocation ==
    \A u \in Users :
        LET first == regenerate(Store, u, today)
            second == regenerate(first, u, today)
        IN  \A t \in first.tasks :
                t.user_id = u =>
                    AllocatedMinutes(second.blocks, t.id) = AllocatedMinutes(first.blocks, t.id)

\* the score the specification gives a loaded task on a given day
SpecScore(task, now) ==
    (MAX_URGENCY_DAYS - Max(0, task.due_date.val - now)) * PRIORITY_FACTOR + task.priority_weight

\* C8: the scorer gives every pending task loaded by the schedule generation
\* the score (90 - max(0, days until due)) * 10 + weight and returns the tasks
\* by descending score.
C8_ScoreFromDueDate ==
    \A u \in Users :
        LET loaded == fetch_tasks(tasks, u, "PENDING")
            out == task_prioritization(loaded, combine(today, 0))
        IN  /\ \A i \in 1..Len(out) : out[i].SCORE = SpecScore(out[i].TASK_DETAIL, today)
            /\ \A i \in 1..Len(out) : \A j \in 1..Len(out) :
                   i < j => SpecScore(out[i].TASK_DETAIL, today) >= SpecScore(out[j].TASK_DETAIL, today)

\* the rows an expansion inserts are the recurring ones
InsertedOccurrences == {b \in Inserted : b.is_recurring = 1}

\* C5: an occurrence inserted by a recurrence expansion overlaps no block of
\* the user stored when it is inserted: none that was there before the run
\* and none inserted earlier in the run, fixed or flexible.
C5_OccurrenceAvoidsStored ==
    [][\A b \in InsertedOccurrences : \A c \in blocks' :
          (c.id # b.id /\ c.user_id = b.user_id) => ~Overlaps(b, c)]_vars

\* an expansion over three days has left out the day taken by a flexible block
C5_Witness ==
    /\ flash.msg = "activity added (occurrences)"
    /\ flash.count = 2
    /\ \E c \in blocks : \E b \in blocks :
          /\ c.is_fixed = 0 /\ b.is_recurring = 1 /\ b.activity_name = "A"
          /\ Overlap(Start(c), End(c), Hour(2, 9) + 30, Hour(2, 10) + 30)
          /\ Start(b) = Hour(3, 9) + 30

\* no stored block of the user overlaps a day of the requested range
RangeFree(bs, u, f) ==
    \A d \in f.recurrence_start..f.recurrence_end : \A c \in bs :
        c.user_id = u =>
            ~Overlap(combine(d, f.t_start), combine(d, f.t_end), Start(c), End(c))

RangeLength(f) == f.recurrence_end - f.recurrence_start + 1

\* C6: with no conflicting block and the end time after the start time, a
\* weekly expansion with all seven weekdays over a range of N days inserts N
\* occurrences and reports N; with Monday alone over 14 days it inserts 2.
C6_WeeklyCount ==
    [][\A u \in Users : \A f \in SeriesActivityForms :
          ( /\ flash'.msg = "activity added (occurrences)"
            /\ f.recurrence_pattern = "weekly"
            /\ f.t_end > f.t_start
            /\ f.recurrence_end >= f.recurrence_start
            /\ RangeFree(blocks, u, f)
            /\ add_activity(u, f) )
          => /\ f.days = AllDays =>
                    Cardinality(Inserted) = RangeLength(f) /\ flash'.count = RangeLength(f)
             /\ (f.days = {0} /\ RangeLength(f) = 14) =>
                    Cardinality(Inserted) = 2 /\ flash'.count = 2]_vars

\* three occurrences of the series of all weekdays over three days
C6_Witness ==
    /\ flash.msg = "activity added (occurrences)"
    /\ flash.count = 3
    /\ \A d \in 2..4 : \E b \in blocks :
          b.recurrence_pattern = "weekly" /\ Start(b) = Hour(d, 9) + 30

ExpansionMsgs == {"activity added (occurrences)", "Updated occurrences"}

\* C7: a biweekly expansion without conflicts inserts the date d of a selected
\* weekday iff floor((d - rangeStart) / 7) is even, whatever the weekday; from
\* a Monday, with Monday selected, over 28 days it inserts weeks 0 and 2 only.
C7_BiweeklyParity ==
    [][\A u \in Users : \A f \in SeriesActivityForms \cup SeriesEditForms :
          ( /\ flash'.msg \in ExpansionMsgs
            /\ f.recurrence_pattern = "biweekly"
            /\ f.t_end > f.t_start
            /\ RangeFree(blocks' \ Inserted, u, f)
            /\ \/ add_activity(u, f)
               \/ \E id \in SeriesBlockIds : edit_schedule_block(u, id, f) )
          => /\ \A d \in f.recurrence_start..f.recurrence_end :
                    weekday(d) \in f.days =>
                        ( (\E b \in Inserted : /\ Start(b) = combine(d, f.t_start)
                                               /\ End(b) = combine(d, f.t_end))
                          <=> ((d - f.recurrence_start) \div 7) % 2 = 0 )
             /\ (weekday(f.recurrence_start) = 0 /\ f.days = {0} /\ RangeLength(f) = 28) =>
                    {dateOf(Start(b)) : b \in Inserted}
                        = {f.recurrence_start, f.recurrence_start + 14}]_vars

\* Wednesday of week 0 and Monday of week 0 (counted from the Tuesday the
\* range starts on) are there, Wednesday and Monday of week 1 are not
C7_Witness ==
    /\ flash.msg \in ExpansionMsgs
    /\ flash.count = 2
    /\ \E b \in blocks : b.recurrence_pattern = "biweekly" /\ dateOf(Start(b)) = 9
    /\ \E b \in blocks : b.recurrence_pattern = "biweekly" /\ dateOf(Start(b)) = 14
    /\ ~\E b \in blocks : dateOf(Start(b)) \in {16, 21}

\* the ranges the conflict detector is asked about
ConflictCandidates ==
    {<<Hour(2, 8), Hour(2, 9)>>, <<Hour(2, 9), Hour(2, 10)>>, <<Hour(2, 10), Hour(2, 11)>>,
     <<Hour(2, 9) + 30, Hour(2, 10) + 30>>, <<Hour(7, 9), Hour(7, 10)>>}
    \cup {<<End(b), End(b) + MinutesPerHour>> : b \in blocks}
    \cup {<<Start(b) - MinutesPerHour, Start(b)>> : b \in blocks}

\* C9: check_for_conflict answers 'available' iff no stored block of the user,
\* fixed or flexible, has start < block.end and block.start < end; a range
\* that only touches a block is available.
C9_ConflictIffOverlap ==
    \A u \in Users : \A c \in ConflictCandidates :
        check_for_conflict(blocks, u, c[1], c[2])
            <=> ~\E b \in blocks : b.user_id = u /\ c[1] < End(b) /\ Start(b) < c[2]

\* a fixed and a flexible block, each refusing its own range and admitting
\* the hour before it
C9_Witness ==
    \E b \in blocks : \E c \in blocks :
        /\ b.is_fixed = 1 /\ c.is_fixed = 0 /\ b.user_id = c.user_id
        /\ ~check_for_conflict(blocks, b.user_id, Start(b), End(b))
        /\ ~check_for_conflict(blocks, c.user_id, Start(c), End(c))
        /\ check_for_conflict(blocks, b.user_id, Start(b) - MinutesPerHour, Start(b))
        /\ check_for_conflict(blocks, c.user_id, End(c), End(c) + MinutesPerHour)

GenerateMsgs == {"Schedule generated.", "Some tasks could not be scheduled"}

\* C10: completing a non-recurring PENDING task makes it COMPLETED with
\* today's completion date, and no operation changes the status of a
\* COMPLETED task afterwards.
C10_CompletedIsTerminal ==
    [][/\ \A t \in tasks : \A t2 \in tasks' :
             (t.status = "COMPLETED" /\ t2.id = t.id) => t2.status = "COMPLETED"
       /\ \A u \in Users : \A t \in tasks :
             (complete_task(u, t.id) /\ t.is_recurring = 0 /\ t.status = "PENDING")
             => \E t2 \in tasks' : /\ t2.id = t.id
                                   /\ t2.status = "COMPLETED"
                                   /\ t2.completion_date = today]_vars

\* a schedule generation has run over a task completed the day before
C10_Witness ==
    /\ flash.msg \in GenerateMsgs
    /\ \E t \in tasks : t.status = "COMPLETED" /\ t.completion_date = today - 1

CompletedMsg == "Task marked completed. Schedule adjusted."

\* C11: completing a task that is already COMPLETED is a no-op: the row keeps
\* its status and its completion date, and the caller is not told that the
\* task was completed.
C11_RecompleteNoOp ==
    [][\A u \in Users : \A t \in tasks :
          (t.status = "COMPLETED" /\ complete_task(u, t.id))
          => (t \in tasks' /\ flash'.msg # CompletedMsg)]_vars

\* C12 as stated: completing a recurring task leaves it PENDING with the due
\* date 7 days later, and a recurring task is never COMPLETED.
C12_RecurringStaysPending ==
    [][/\ \A u \in Users : \A t \in tasks :
             (t.is_recurring # 0 /\ complete_task(u, t.id))
             => \E t2 \in tasks' : /\ t2.id = t.id
                                   /\ t2.status = "PENDING"
                                   /\ t2.due_date = t.due_date + 7
       /\ \A t \in tasks' : t.is_recurring # 0 => t.status # "COMPLETED"]_vars

\* C12 amended: completing a recurring task advances its due date by 7 days
\* and leaves it PENDING, or INSUFFICIENT_TIME_WARNING when the regeneration
\* run by the completion cannot place it fully; a recurring task is never
\* COMPLETED.
C12_RecurringNeverCompleted ==
    [][/\ \A u \in Users : \A t \in tasks :
             (t.is_recurring # 0 /\ complete_task(u, t.id))
             => \E t2 \in tasks' :
                    /\ t2.id = t.id
                    /\ t2.due_date = t.due_date + 7
                    /\ t2.status \in {"PENDING", "INSUFFICIENT_TIME_WARNING"}
       /\ \A t \in tasks' : t.is_recurring # 0 => t.status # "COMPLETED"]_vars

\* a recurring task completed twice: due two weeks later, still open
C12_Witness ==
    /\ flash.msg = "Task reset for next week"
    /\ \E t \in tasks : /\ t.is_recurring = 1
                         /\ t.due_date = 31 + 2 * RecurDays
                         /\ t.status \in {"PENDING", "INSUFFICIENT_TIME_WARNING"}

\* the flash messages of a rejected request
ValidationMsgs ==
    {"End must be after start", "End date must be after start date",
     "Start time must be before end time", "Please select at least one day",
     "Required time cannot be zero"}

SeriesPatterns == {"weekly", "biweekly"}

\* C13: a request to create or regenerate a weekly/biweekly series with no
\* weekday selected is rejected as a validation error and neither inserts nor
\* deletes a block, in add-activity and in edit-activity.
C13_EmptyWeekdaysRejected ==
    [][\A u \in Users :
          /\ \A f \in FormsActivityForms :
                ( /\ f.recurrence_pattern \in SeriesPatterns
                  /\ f.days = {}
                  /\ add_activity(u, f) )
                => (blocks' = blocks /\ flash'.msg \in ValidationMsgs)
          /\ \A f \in FormsEditForms : \A b \in blocks :
                ( /\ f.recurrence_pattern \in SeriesPatterns
                  /\ f.days = {}
                  /\ edit_schedule_block(u, b.id, f) )
                => (blocks' = blocks /\ flash'.msg \in ValidationMsgs)]_vars

\* C14: a request to expand a weekly/biweekly series whose time of day does
\* not end after it starts is rejected with a validation error before any
\* block is deleted or inserted, in add-activity and in edit-activity, also
\* when the submitted date-times of the edit are in order (22:00 to 01:00 of
\* the next day).
C14_TimeOfDayRejected ==
    [][\A u \in Users :
          /\ \A f \in FormsActivityForms :
                ( /\ f.recurrence_pattern \in SeriesPatterns
                  /\ f.t_end <= f.t_start
                  /\ add_activity(u, f) )
                => (blocks' = blocks /\ flash'.msg \in ValidationMsgs)
          /\ \A f \in FormsEditForms : \A b \in blocks :
                ( /\ f.recurrence_pattern \in SeriesPatterns
                  /\ f.t_end <= f.t_start
                  /\ edit_schedule_block(u, b.id, f) )
                => (blocks' = blocks /\ flash'.msg \in ValidationMsgs)]_vars

\* the rows of the users other than u
OthersRows(rows, u) == {r \in rows : r.user_id # u}

\* C15: an operation invoked by one user leaves the tasks and the schedule
\* blocks of every other user unchanged, whatever the operation and its
\* arguments, complete-task with the id of another user's task included.
\* The flash message of a step names the user who invoked it.
C15_OtherUsersUntouched ==
    [][\A u \in TwoUsers :
          flash'.user = u
          => /\ OthersRows(tasks', u) = OthersRows(tasks, u)
             /\ OthersRows(blocks', u) = OthersRows(blocks, u)]_vars

\* C16: every stored block ends strictly after it starts.
C16_BlocksEndAfterStart == \A b \in blocks : End(b) > Start(b)

\* last week's Monday to Sunday
InLastWeek(d) == today - (weekday(today) + 7) <= d /\ d <= today - (weekday(today) + 7) + 6

\* C17: in the weekly reports every task that is not COMPLETED and is due
\* before today is in the MISSED bucket of the current-week report, and, when
\* its due date lies in last week's Monday-Sunday window, in the MISSED bucket
\* of the last-week report.
C17_OverdueCountedMissed ==
    \A u \in Users : \A t \in tasks :
        (t.user_id = u /\ t.status # "COMPLETED" /\ t.due_date < today)
        => /\ t.id \in weekly_progress_view(u, today).missed_tasks
           /\ InLastWeek(t.due_date) => t.id \in weekly_report_view(u, today).missed_tasks

\* C18: after generate_schedule every task that was PENDING when the call
\* began and whose inserted blocks total less than its required effort is
\* INSUFFICIENT_TIME_WARNING, and every such task placed in full is PENDING.
C18_ShortfallFlagged ==
    [][\A u \in Users : generate_schedule(u) =>
          \A t \in tasks : (t.user_id = u /\ t.status = "PENDING") =>
              \E t2 \in tasks' :
                  /\ t2.id = t.id
                  /\ t2.status = IF total_hours(AllocatedMinutes(blocks', t.id)) < t.required_time
                                    THEN "INSUFFICIENT_TIME_WARNING"
                                    ELSE "PENDING"]_vars

\* the list task_prioritization hands to selection_sort_tasks: the user's
\* PENDING tasks in the order of fetch_tasks, each with the score it computes
Scored(u) ==
    LET task_records == fetch_tasks(tasks, u, "PENDING")
    IN  [i \in 1..Len(task_records) |->
            LET task == task_records[i]
                days_remaining == get_days_until_due(task.due_date, combine(today, 0))
            IN  [TASK_DETAIL |-> task,
                 SCORE |-> ((MAX_URGENCY_DAYS - days_remaining) * PRIORITY_FACTOR)
                               + task.priority_weight]]

\* the position of an entry in a list without duplicates
PositionIn(seq, e) == CHOOSE i \in 1..Len(seq) : seq[i] = e

\* C19: the ordering of the scorer is stable: two entries of equal score
\* leave selection_sort_tasks in the relative order in which they entered.
C19_SortIsStable ==
    \A u \in Users :
        LET input == Scored(u)
            output == selection_sort_tasks(input)
        IN  \A i \in 1..Len(input) : \A j \in 1..Len(input) :
                (i < j /\ input[i].SCORE = input[j].SCORE)
                => PositionIn(output, input[i]) < PositionIn(output, input[j])

\* the fixed activities of a user and the slots the calculator returns for them
FixedOf(u) == {b \in blocks : b.user_id = u /\ b.is_fixed = 1}

FreeSlots(u) == calculate_free_time(get_fixed_activities(blocks, u), today)

\* the maximal intervals <<a, b>> of the windows 08:00-22:00 of the days
\* today+1 .. today+7 that no fixed activity of the user covers: an interval
\* begins at a window start or at the end of an activity, ends at a window
\* end or at the start of an activity, meets no activity, and cannot be
\* extended on either side
MaximalFree(u) ==
    LET days == {today + d : d \in 1..7}
        starts == {Hour(day, 8) : day \in days} \cup {End(fx) : fx \in FixedOf(u)}
        ends == {Hour(day, 22) : day \in days} \cup {Start(fx) : fx \in FixedOf(u)}
    IN  {p \in starts \X ends :
            /\ p[1] < p[2]
            /\ \E day \in days :
                  /\ Hour(day, 8) <= p[1] /\ p[2] <= Hour(day, 22)
                  /\ \/ p[1] = Hour(day, 8)
                     \/ \E fx \in FixedOf(u) : Start(fx) < p[1] /\ p[1] <= End(fx)
                  /\ \/ p[2] = Hour(day, 22)
                     \/ \E fx \in FixedOf(u) : Start(fx) <= p[2] /\ p[2] < End(fx)
            /\ \A fx \in FixedOf(u) : ~(Start(fx) < p[2] /\ End(fx) > p[1])}

\* C20: calculate_free_time returns, in chronological order, exactly the
\* maximal sub-intervals of the windows [08:00, 22:00) of the day offsets 1..7
\* that no fixed activity covers and that last at least 0.25 h, and no
\* returned slot overlaps a fixed activity.
C20_FreeSlotsAreMaximalGaps ==
    \A u \in Users :
        LET slots == FreeSlots(u)
        IN  /\ \A i \in 1..Len(slots) : \A j \in 1..Len(slots) :
                  i < j => slots[i].start_time < slots[j].start_time
            /\ {<<slots[i].start_time, slots[i].duration>> : i \in 1..Len(slots)}
                  = {<<p[1], total_hours(p[2] - p[1])>> :
                        p \in {q \in MaximalFree(u) : 4 * (q[2] - q[1]) >= MinutesPerHour}}
            /\ \A i \in 1..Len(slots) : \A fx \in FixedOf(u) :
                  ~(Start(fx) < slots[i].start_time + timedelta_hours(slots[i].duration)
                    /\ End(fx) > slots[i].start_time)

\* an activity inside the window of tomorrow has split it in two, and an
\* activity until 21:50 of the day after has left a piece too short to keep
C20_Witness ==
    \E u \in Users :
        LET slots == FreeSlots(u)
        IN  /\ Cardinality(FixedOf(u)) = 2
            /\ Len(slots) = 7
            /\ slots[1] = [start_time |-> Hour(today + 1, 8), duration |-> Minutes(60)]
            /\ slots[2] = [start_time |-> Hour(today + 1, 10), duration |-> Minutes(720)]
            /\ slots[3].start_time = Hour(today + 3, 8)

\* the blocks of a user with the (name, pattern) key of a block
SameKey(x, u, b) ==
    /\ x.user_id = u
    /\ x.activity_name = b.activity_name
    /\ x.recurrence_pattern = b.recurrence_pattern

C22_FlaggedTaskIgnored ==
    [][\A u \in Users : \A t \in tasks :
          ( /\ t.user_id = u
            /\ t.status = "INSUFFICIENT_TIME_WARNING"
            /\ generate_schedule(u) )
          => /\ t \in tasks'
             /\ ~\E b \in blocks' : b.task_id = t.id
             /\ LET listed == unscheduled(tasks', blocks', u)
                IN  /\ t \notin listed
                    /\ \A l \in listed : l.status = "PENDING"
                    /\ flash'.count = Cardinality(listed)
                    /\ flash'.msg = IF listed = {} THEN "Schedule generated."
                                                   ELSE "Some tasks could not be scheduled"]_vars

\* a later generation has run over a flagged task: it has lost its blocks and
\* the generation reports success
C22_Witness ==
    /\ flash.msg = "Schedule generated."
    /\ \E t \in tasks : /\ t.status = "INSUFFICIENT_TIME_WARNING"
                         /\ ~\E b \in blocks : b.task_id = t.id

\* the messages of an add or an edit of an activity that went through
ActivitySuccessMsgs ==
    {"Fixed activity added", "activity added (occurrences)", "Updated occurrences",
     "Updated activity"}

\* the conflict check runs for the occurrence of date d of a valid form
CheckRuns(f, d) ==
    IF f.recurrence_pattern = "once"
        THEN d = f.date /\ f.t_start < f.t_end
        ELSE /\ f.recurrence_start <= d /\ d <= f.recurrence_end
             /\ DaySelected(f.days, d)
             /\ f.t_start < f.t_end
             /\ ~OffWeek(f.recurrence_pattern, d, f.recurrence_start)

\* C23: when the conflict check of an occurrence fails, the add or the edit
\* of the activity stops with an error: it inserts no block for that
\* occurrence or a later one and does not report success.
C23_FailedCheckStops ==
    [][\A u \in Users : \A fd \in FaultDays : \A d \in fd :
          /\ \A f \in FaultActivityForms :
                (add_activity_env(fd, u, f) /\ CheckRuns(f, d))
                => /\ \A b \in Inserted : dateOf(Start(b)) < d
                   /\ flash'.msg \notin ActivitySuccessMsgs
          /\ \A f \in FaultEditForms : \A b0 \in blocks :
                ( /\ edit_schedule_block_env(fd, u, b0.id, f)
                  /\ f.recurrence_pattern # "once"
                  /\ CheckRuns(f, d) )
                => /\ \A b \in Inserted : dateOf(Start(b)) < d
                   /\ flash'.msg \notin ActivitySuccessMsgs]_vars

\* two flexible blocks of the user overlap, or are the same block stored twice
FlexibleClash(u) ==
    \E b1 \in blocks : \E b2 \in blocks :
        /\ b1.user_id = u /\ b2.user_id = u
        /\ b1.is_fixed = 0 /\ b2.is_fixed = 0
        /\ b1.id # b2.id
        /\ Overlaps(b1, b2)

C25_FixedBlocksDisjoint ==
    \A b1 \in blocks : \A b2 \in blocks :
        ( /\ b1.is_fixed = 1 /\ b2.is_fixed = 1
          /\ b1.user_id = b2.user_id
          /\ b1.id # b2.id )
        => ~Overlaps(b1, b2)

\* C26: a schedule generation raises the 'Some tasks could not be scheduled'
\* warning whenever a task of the user that was PENDING when the call began
\* has no block when the call ends.
C26_ZeroBlocksWarned ==
    [][\A u \in Users :
          ( /\ generate_schedule(u)
            /\ \E t \in tasks : /\ t.user_id = u /\ t.status = "PENDING"
                                 /\ ~\E b \in blocks' : b.task_id = t.id )
          => flash'.msg = "Some tasks could not be scheduled"]_vars

\* C27: a non-recurring task flagged INSUFFICIENT_TIME_WARNING is, after any
\* operation, still flagged, or COMPLETED, or deleted: it never returns to
\* PENDING, and no operation inserts a block for it.
C27_FlaggedNeverReopens ==
    [][\A t \in tasks :
          (t.is_recurring = 0 /\ t.status = "INSUFFICIENT_TIME_WARNING")
          => /\ \A t2 \in tasks' :
                   t2.id = t.id => t2.status \in {"INSUFFICIENT_TIME_WARNING", "COMPLETED"}
             /\ ~\E b \in Inserted : b.task_id = t.id]_vars

\* a flagged task has been edited (new due date and weight) and is still
\* flagged
C27_Witness ==
    /\ flash.msg = "Task updated"
    /\ \E t \in tasks : /\ t.is_recurring = 0
                         /\ t.status = "INSUFFICIENT_TIME_WARNING"
                         /\ t.due_date = 0 /\ t.priority_weight = 100

C29_BlocksReferToTasks ==
    \A b \in blocks : b.task_id # 0 => \E t \in tasks : t.id = b.task_id

\* C30: the PENDING bucket of the last-week report is empty on every date and
\* for every set of tasks, and a PENDING task due last week that was not
\* completed last week is in the MISSED bucket.
C30_LastWeekPendingEmpty ==
    \A u \in Users :
        LET r == weekly_report_view(u, today)
        IN  /\ r.pending_tasks = {}
            /\ \A t \in tasks :
                   (/\ t.user_id = u /\ t.status = "PENDING"
                    /\ InLastWeek(t.due_date)
                    /\ ~(t.completion_date # -1 /\ InLastWeek(t.completion_date)))
                   => t.id \in r.missed_tasks

\* on a Monday a PENDING task that was due the day before is reported MISSED
C30_Witness ==
    /\ weekday(today) = 0
    /\ \E t \in tasks :
          /\ t.status = "PENDING" /\ t.due_date = today - 1
          /\ t.id \in weekly_report_view(t.user_id, today).missed_tasks
          /\ weekly_report_view(t.user_id, today).pending_tasks = {}

====
